---------------------------- MODULE Spec2Model ----------------------------
(***************************************************************************)
(* Model of tools/qualikiz/qualikizrun.py: the Run registry, the job       *)
(* directory builder EmptyJob.to_file, the tree walker recursive_function  *)
(* and the two operations it is used with, generate_input and run_job.     *)
(*                                                                         *)
(* A path is a sequence of components.  An absolute path starts with the   *)
(* component "/", so "/r/runs" is <<"/", "r", "runs">>, "r/runs" is        *)
(* <<"r", "runs">> and the empty string is << >>.  Text (process output,   *)
(* file rows) is a sequence of one-character strings.                      *)
(***************************************************************************)
EXTENDS Integers, Sequences, FiniteSets, TLC

VARIABLES fs, run, jobs, pc, tf, walk, last, submitted, ops

vars == <<fs, run, jobs, pc, tf, walk, last, submitted, ops>>

(***************************************************************************)
(* Bounds of the model.                                                    *)
(***************************************************************************)
\* The number of top-level calls of a session.
MaxOps == 3

JobNames == {"a", "b"}

(***************************************************************************)
(* Fixed file names.                                                       *)
(***************************************************************************)
scriptname == "edison.sbatch"

jobdatafile == "jobdata.pkl"

metadatafile == "metadata.csv"

binary_basename == <<"QuaLiKiz">>

Cwd == <<"/", "cwd">>

(***************************************************************************)
(* os.path                                                                 *)
(***************************************************************************)
isabs(p) == Len(p) > 0 /\ p[1] = "/"

join(a, b) == IF isabs(b) THEN b ELSE a \o b

abspath(p) == IF isabs(p) THEN p ELSE Cwd \o p

basename(p) == IF Len(p) > 1 THEN p[Len(p)] ELSE ""

dirname(p) == IF Len(p) > 1 THEN SubSeq(p, 1, Len(p) - 1) ELSE p

IsPrefix(p, q) == Len(p) <= Len(q) /\ SubSeq(q, 1, Len(p)) = p

(***************************************************************************)
(* The file system: a function from the absolute paths that exist to       *)
(* nodes.  A node is a directory, a regular file with a content, or a      *)
(* symbolic link with a target.                                            *)
(***************************************************************************)
DirNode == [kind |-> "dir", content |-> << >>, target |-> << >>]

FileNode(c) == [kind |-> "file", content |-> c, target |-> << >>]

LinkNode(t) == [kind |-> "link", content |-> << >>, target |-> t]

exists(f, p) == p \in DOMAIN f

\* A path with its last component followed when that is a symbolic link.
Resolve(f, p) == IF exists(f, p) /\ f[p].kind = "link" THEN f[p].target ELSE p

isdir(f, p) == exists(f, Resolve(f, p)) /\ f[Resolve(f, p)].kind = "dir"

\* os.listdir of a directory: the names of its entries.
listdir(f, p) ==
    {q[Len(q)] : q \in {r \in DOMAIN f : Len(r) = Len(Resolve(f, p)) + 1
                                          /\ IsPrefix(Resolve(f, p), r)}}

Put(f, p, node) == [q \in DOMAIN f \cup {p} |-> IF q = p THEN node ELSE f[q]]

\* shutil.rmtree: the directory and everything below it.
rmtree(f, p) == [q \in {r \in DOMAIN f : ~IsPrefix(p, r)} |-> f[q]]

\* os.makedirs(p, exist_ok=True) for a path one or two levels below base.
RECURSIVE makedirs(_, _)
makedirs(f, p) ==
    IF exists(f, p) THEN f
    ELSE Put(makedirs(f, dirname(p)), p, DirNode)

(***************************************************************************)
(* Outcomes.  Every operation yields a record: the file system it leaves,  *)
(* the exception it raised ("" for none) and its return value.  Python's   *)
(* None is the text <<"None">>, the integer 1 the text <<"1">>.            *)
(***************************************************************************)
None == <<"None">>

One == <<"1">>

Out(f, e, r) == [fs |-> f, exc |-> e, ret |-> r]

\* os.mkdir: the parent must be a directory and the path must not exist.
mkdir(f, p) ==
    IF exists(f, p) THEN Out(f, "FileExistsError", None)
    ELSE IF ~isdir(f, dirname(p)) THEN Out(f, "FileNotFoundError", None)
    ELSE Out(Put(f, p, DirNode), "", None)

\* os.symlink(src, dst): dst must not exist.
symlink(f, src, dst) ==
    IF exists(f, dst) THEN Out(f, "FileExistsError", None)
    ELSE Out(Put(f, dst, LinkNode(src)), "", None)

(***************************************************************************)
(* Run.__init__                                                            *)
(***************************************************************************)
NoRun == [ok |-> FALSE, rootdir |-> << >>, qualikizdir |-> << >>, runsdir |-> << >>]

\* Run.__init__ without lines 64-68: only rootdir is validated.
RunInitNoCheck(rootdir, qualikizdir, runsdir) ==
    LET qd == IF qualikizdir = << >> THEN join(rootdir, <<"tools", "qualikiz">>)
              ELSE qualikizdir
        rd == IF runsdir = << >> THEN join(rootdir, <<"runs">>) ELSE runsdir
    IN  IF ~isabs(rootdir) THEN [exc |-> "PathException", run |-> NoRun]
        ELSE [exc |-> "",
              run |-> [ok |-> TRUE, rootdir |-> rootdir,
                       qualikizdir |-> qd, runsdir |-> rd]]

RunInit(rootdir, qualikizdir, runsdir) ==
    LET qd == IF qualikizdir = << >> THEN join(rootdir, <<"tools", "qualikiz">>)
              ELSE qualikizdir
        rd == IF runsdir = << >> THEN join(rootdir, <<"runs">>) ELSE runsdir
    IN  IF ~isabs(rootdir) THEN [exc |-> "PathException", run |-> NoRun]
        ELSE IF ~isabs(qd) THEN [exc |-> "PathException", run |-> NoRun]
        ELSE IF ~isabs(rd) THEN [exc |-> "PathException", run |-> NoRun]
        ELSE [exc |-> "",
              run |-> [ok |-> TRUE, rootdir |-> rootdir,
                       qualikizdir |-> qd, runsdir |-> rd]]

(***************************************************************************)
(* EmptyJob.__init__                                                       *)
(***************************************************************************)
EmptyJobInit(rootdir, name, parameters_script) ==
    IF isabs(rootdir)
    THEN [exc |-> "",
          job |-> [name |-> name,
                   binary_path |-> abspath(join(rootdir, binary_basename)),
                   parameters_script |-> parameters_script]]
    ELSE [exc |-> "PathException",
          job |-> [name |-> name, binary_path |-> << >>,
                   parameters_script |-> parameters_script]]

(***************************************************************************)
(* EmptyJob.to_file                                                        *)
(***************************************************************************)
\* Every response taken as consent.
AcceptedAny(resp) == TRUE

\* line 138: the responses that turn the prompt into an overwrite
Accepted(resp) == resp = "" \/ resp = "Y" \/ resp = "y"

\* The overwrite branch without shutil.rmtree and os.mkdir.
RecreateKeep(f, path) == f

\* The overwrite branch removing the runs directory instead of the job's.
RecreateRunsdir(f, path) == makedirs(rmtree(f, dirname(path)), path)

\* lines 142-143: shutil.rmtree(path); os.mkdir(path)
Recreate(f, path) == Put(rmtree(f, path), path, DirNode)

\* Batch.to_file(path): the batch script rendered to a file.
BatchToFile(f, path) == Put(f, path, FileNode(<<"#!/bin/bash">>))

\* lines 157-164: parameters.py from the job's script or from the template
WriteParameters(f, job, path, qualikizdir) ==
    LET template == qualikizdir \o <<"parameters_template.py">>
    IN  IF job.parameters_script = << >>
        THEN IF exists(f, Resolve(f, template)) /\ f[Resolve(f, template)].kind = "file"
             THEN Out(Put(f, path \o <<"parameters.py">>,
                          FileNode(f[Resolve(f, template)].content)), "", None)
             ELSE Out(f, "FileNotFoundError", None)
        ELSE Out(Put(f, path \o <<"parameters.py">>,
                     FileNode(job.parameters_script)), "", None)

\* lines 147-168: everything after the job directory has been created.  The
\* warning about a missing binary (lines 147-149) changes nothing.
Populate(f, job, path, qualikizdir, metapickle) ==
    LET l1 == symlink(f, job.binary_path, path \o <<basename(job.binary_path)>>)
        l2 == symlink(l1.fs, qualikizdir, path \o <<"qualikiz">>)
        d1 == makedirs(l2.fs, path \o <<"output", "primitive">>)
        d2 == makedirs(d1, path \o <<"debug">>)
        b  == BatchToFile(d2, path \o <<scriptname>>)
        w  == WriteParameters(b, job, path, qualikizdir)
        pk == Put(w.fs, path \o <<jobdatafile>>,
                  FileNode(<<job.name>> \o job.binary_path))
    IN  IF l1.exc # "" THEN l1
        ELSE IF l2.exc # "" THEN l2
        ELSE IF w.exc # "" THEN w
        ELSE IF metapickle THEN Out(pk, "", None)
        ELSE Out(w.fs, "", None)

\* The outcome of EmptyJob.to_file together with whether it prompted.
JobToFile(f, job, runsdir, qualikizdir, overwrite, resp, metapickle) ==
    LET r0   == IF ~isdir(f, runsdir) THEN mkdir(f, runsdir) ELSE Out(f, "", None)
        path == abspath(join(runsdir, <<job.name>>))
        m    == mkdir(r0.fs, path)
        ow   == overwrite \/ Accepted(resp)
    IN  IF ~isabs(qualikizdir) THEN Out(f, "PathException", None) @@ [prompted |-> FALSE]
        ELSE IF ~isabs(runsdir) THEN Out(f, "PathException", None) @@ [prompted |-> FALSE]
        ELSE IF r0.exc # "" THEN r0 @@ [prompted |-> FALSE]
        ELSE IF m.exc = "FileExistsError"
             THEN IF ow
                  THEN IF r0.fs[path].kind # "dir"
                       THEN Out(r0.fs, "NotADirectoryError", None)
                                @@ [prompted |-> ~overwrite]
                       ELSE Populate(Recreate(r0.fs, path), job, path,
                                     qualikizdir, metapickle)
                                @@ [prompted |-> ~overwrite]
                  ELSE Out(r0.fs, "", One) @@ [prompted |-> TRUE]
        ELSE IF m.exc # "" THEN m @@ [prompted |-> FALSE]
        ELSE Populate(m.fs, job, path, qualikizdir, metapickle)
                 @@ [prompted |-> FALSE]

(***************************************************************************)
(* Text: bytes.split() and bytes.strip() with no argument.                 *)
(***************************************************************************)
Whitespace == {" ", "\n", "\t"}

RECURSIVE SplitFrom(_, _, _, _)
SplitFrom(s, i, cur, acc) ==
    IF i > Len(s) THEN (IF cur = << >> THEN acc ELSE Append(acc, cur))
    ELSE IF s[i] \in Whitespace
         THEN SplitFrom(s, i + 1, << >>, IF cur = << >> THEN acc ELSE Append(acc, cur))
         ELSE SplitFrom(s, i + 1, Append(cur, s[i]), acc)

split(s) == SplitFrom(s, 1, << >>, << >>)

strip(s) ==
    LET keep == {i \in 1..Len(s) : s[i] \notin Whitespace}
        lo   == CHOOSE i \in keep : \A j \in keep : i <= j
        hi   == CHOOSE i \in keep : \A j \in keep : j <= i
    IN  IF keep = {} THEN << >> ELSE SubSeq(s, lo, hi)

(***************************************************************************)
(* generate_input: runs python on the job's parameters.py.  The script is  *)
(* an external program; when it succeeds it leaves input/p1.bin behind.    *)
(***************************************************************************)
generate_input(f, job_folder, rc) ==
    LET here == Resolve(f, job_folder)
    IN  IF ~exists(f, here \o <<"parameters.py">>) \/ rc # 0
        THEN Out(f, "CalledProcessError", None)
        ELSE Out(Put(makedirs(f, here \o <<"input">>),
                     here \o <<"input", "p1.bin">>, FileNode(<<"bin">>)), "", None)

(***************************************************************************)
(* run_job.  git and sbatch are the outcomes of the two external commands  *)
(* (exit code and standard output), now the clock reading.  The warning    *)
(* about a missing input/p1.bin (lines 209-213) changes nothing.           *)
(***************************************************************************)
\* output.split()[0]
FirstToken(toks) == toks[1]

\* line 222: output.split()[-1]
LastToken(toks) == toks[Len(toks)]

MetadataRows(jobnumber, now, qualikiz_version) ==
    << <<"jobnumber", jobnumber>>,
       <<"submittime", now>>,
       <<"qualikiz_version", qualikiz_version>> >>

\* The metadata file opened and written before the scheduler is called.
WriteMetadataFirst(f, here, git, sbatch, now) ==
    IF ~isdir(f, here)
    THEN Out(f, "FileNotFoundError", None) @@ [sbatched |-> FALSE]
    ELSE LET g == Put(f, here \o <<metadatafile>>,
                      FileNode(MetadataRows(<<"?">>, now, strip(git.out))))
         IN  IF sbatch.rc # 0
             THEN Out(g, "CalledProcessError", None) @@ [sbatched |-> TRUE]
             ELSE IF split(sbatch.out) = << >>
             THEN Out(g, "IndexError", None) @@ [sbatched |-> TRUE]
             ELSE Out(Put(f, here \o <<metadatafile>>,
                          FileNode(MetadataRows(LastToken(split(sbatch.out)), now,
                                                strip(git.out)))),
                      "", None) @@ [sbatched |-> TRUE]

\* lines 220-230: the scheduler call, the parse and the metadata file
Submit(f, here, git, sbatch, now) ==
    IF sbatch.rc # 0
    THEN Out(f, "CalledProcessError", None) @@ [sbatched |-> TRUE]
    ELSE IF split(sbatch.out) = << >>
    THEN Out(f, "IndexError", None) @@ [sbatched |-> TRUE]
    ELSE IF ~isdir(f, here)
    THEN Out(f, "FileNotFoundError", None) @@ [sbatched |-> TRUE]
    ELSE Out(Put(f, here \o <<metadatafile>>,
                 FileNode(MetadataRows(LastToken(split(sbatch.out)), now,
                                       strip(git.out)))),
             "", None) @@ [sbatched |-> TRUE]

run_job(f, job_folder, git, sbatch, now) ==
    IF git.rc # 0
    THEN Out(f, "CalledProcessError", None) @@ [sbatched |-> FALSE]
    ELSE Submit(f, Resolve(f, job_folder), git, sbatch, now)

\* A caller-supplied function that returns the path it is given, or raises.
echo(f, job_folder, rc) ==
    IF rc # 0 THEN Out(f, "ValueError", None) ELSE Out(f, "", job_folder)

(***************************************************************************)
(* recursive_function, one loop iteration at a time.  dotprint only        *)
(* prints and is left out.                                                 *)
(***************************************************************************)
\* The listing of the root walked even when the root holds the script.
CandidatesBoth(f, path) ==
    IF scriptname \in listdir(f, path)
    THEN {path} \cup {join(path, <<n>>) : n \in listdir(f, path)}
    ELSE {join(path, <<n>>) : n \in listdir(f, path)}

\* lines 182 and 189: the root itself, or else every entry of the root
Candidates(f, path) ==
    IF scriptname \in listdir(f, path)
    THEN {path}
    ELSE {join(path, <<n>>) : n \in listdir(f, path)}

\* The test of line 192 left out.
AppliesToAnyDir(f, path, folder) ==
    IF folder = path THEN TRUE ELSE isdir(f, folder)

\* lines 191-192: an entry is visited when it is a directory with the script
Applies(f, path, folder) ==
    IF folder = path THEN TRUE
    ELSE isdir(f, folder) /\ scriptname \in listdir(f, folder)

ExceptionClasses ==
    {"CalledProcessError", "IndexError", "FileNotFoundError", "ValueError",
     "FileExistsError", "NotADirectoryError", "PathException"}

\* except OSError
CatchesOSError(exc) == exc \in {"FileNotFoundError", "FileExistsError", "NotADirectoryError"}

\* lines 185 and 195: except Exception
Catches(exc) == exc \in ExceptionClasses

\* lines 184 and 194: results.append(function(...)) inside the try
Collect(w, folder, o) ==
    [w EXCEPT !.calls = Append(@, [folder |-> folder, exc |-> o.exc, ret |-> o.ret]),
              !.results = IF o.exc = "" THEN Append(@, o.ret) ELSE @]

(***************************************************************************)
(* The environment: the directories the program is pointed at and the      *)
(* outcomes of the external commands.                                      *)
(***************************************************************************)
RootDir == <<"/", "r">>

ToolsDir == <<"/", "r", "tools", "qualikiz">>

RunsDir == <<"/", "r", "runs">>

RootDirs == {RootDir, <<"r">>}

QualikizDirs == {<< >>, ToolsDir}

RunsDirs == {<< >>, <<"runs">>}

Scripts == {<< >>, <<"pass">>}

Responses == {"", "Y", "y", "n", "N"}

Functions == {"generate_input", "run_job", "echo"}

Folders == {RunsDir \o <<n>> : n \in JobNames \cup {"x"}}

WalkRoots == {RootDir, RunsDir, RunsDir \o <<"a">>, RunsDir \o <<"x">>}

Example ==
    <<"S", "u", "b", "m", "i", "t", "t", "e", "d", " ", "b", "a", "t", "c", "h",
      " ", "j", "o", "b", " ", "1", "2", "3", "4", "5">>

GitOutcomes ==
    {[rc |-> 128, out |-> << >>], [rc |-> 0, out |-> <<"v", "2", "\n">>]}

SbatchOutcomes ==
    {[rc |-> 1, out |-> << >>], [rc |-> 0, out |-> Example],
     [rc |-> 0, out |-> <<"7", "\n">>], [rc |-> 0, out |-> <<" ">>]}

Times == {<<"0", "9", ":", "0", "0">>}

\* The file system before the program runs.
BaseFs ==
    LET d == {<<"/">>, RootDir, <<"/", "r", "tools">>, ToolsDir}
    IN  [p \in d |-> DirNode]

WithTemplate(f) ==
    Put(f, ToolsDir \o <<"parameters_template.py">>, FileNode(<<"template">>))

\* A runs directory left by an earlier session: a job directory a with a
\* stray file old.dat, a directory x with a job directory y below it, and a
\* plain file f.
WithTree(f, xIsJob) ==
    LET f1 == makedirs(f, RunsDir \o <<"x", "y">>)
        f2 == Put(f1, RunsDir \o <<"x", "y", scriptname>>, FileNode(<<"#!/bin/bash">>))
        f3 == Put(Put(makedirs(f2, RunsDir \o <<"a">>),
                      RunsDir \o <<"a", scriptname>>, FileNode(<<"#!/bin/bash">>)),
                  RunsDir \o <<"a", "old.dat">>, FileNode(<<"old">>))
        f4 == Put(f3, RunsDir \o <<"f">>, FileNode(<<"text">>))
    IN  IF xIsJob
        THEN Put(f4, RunsDir \o <<"x", scriptname>>, FileNode(<<"#!/bin/bash">>))
        ELSE f4

InitialFs ==
    {WithTemplate(BaseFs), WithTree(BaseFs, FALSE),
     WithTree(WithTemplate(BaseFs), TRUE)}

(***************************************************************************)
(* State.                                                                  *)
(***************************************************************************)
Last0 ==
    [op |-> "", caller |-> "", exc |-> "", ret |-> None, path |-> << >>,
     existed |-> FALSE, overwrite |-> FALSE, prompted |-> FALSE, resp |-> "-",
     sbatched |-> FALSE, args |-> << >>, calls |-> << >>,
     results |-> << >>, direct |-> FALSE, attempted |-> << >>]

Tf0 == [idx |-> 0, overwrite |-> FALSE, attempted |-> << >>]

Walk0 ==
    [path |-> << >>, function |-> "", direct |-> FALSE, todo |-> {},
     calls |-> << >>, results |-> << >>]

\* No successful submission is on record.
NoSubmissions == [q \in {} |-> << >>]

\* A session starts with run = Run(rootdir) and no job registered.
Init ==
    /\ fs \in InitialFs
    /\ run = RunInit(RootDir, << >>, << >>).run
    /\ jobs = << >>
    /\ pc = "idle"
    /\ tf = Tf0
    /\ walk = Walk0
    /\ last = Last0
    /\ submitted = NoSubmissions
    /\ ops = 0

(***************************************************************************)
(* The record of the most recent successful submission of each folder      *)
(* whose metadata file still exists; nth tells a first submission (1) from *)
(* a later one (2).                                                        *)
(***************************************************************************)
Forget(sub, f) ==
    [q \in {r \in DOMAIN sub : exists(f, r \o <<metadatafile>>)} |-> sub[q]]

Remember(sub, here, git, sbatch, now) ==
    [q \in DOMAIN sub \cup {here} |->
        IF q = here
        THEN [out |-> sbatch.out, now |-> now, describe |-> git.out,
              nth |-> IF here \in DOMAIN sub THEN 2 ELSE 1]
        ELSE sub[q]]

(***************************************************************************)
(* Run(rootdir, qualikizdir, runsdir)                                      *)
(***************************************************************************)
NewRun(rootdir, qualikizdir, runsdir) ==
    /\ pc = "idle"
    /\ ops < MaxOps
    /\ ops' = ops + 1
    /\ LET r == RunInit(rootdir, qualikizdir, runsdir)
       IN  /\ IF r.exc = ""
              THEN run' = r.run /\ jobs' = << >>
              ELSE UNCHANGED <<run, jobs>>
           /\ last' = [Last0 EXCEPT !.op = "Run", !.exc = r.exc,
                                    !.args = <<rootdir, qualikizdir, runsdir>>]
    /\ UNCHANGED <<fs, pc, tf, walk, submitted>>

(***************************************************************************)
(* run.jobs[name] = EmptyJob(run.rootdir, name, ...)                       *)
(***************************************************************************)
Names(js) == {js[i].name : i \in 1..Len(js)}

AddJob(name, parameters_script) ==
    /\ pc = "idle"
    /\ ops < MaxOps
    /\ ops' = ops + 1
    /\ run.ok
    /\ LET e == EmptyJobInit(run.rootdir, name, parameters_script)
       IN  /\ jobs' = IF e.exc # "" THEN jobs
                      ELSE IF name \in Names(jobs)
                      THEN [i \in 1..Len(jobs) |->
                               IF jobs[i].name = name THEN e.job ELSE jobs[i]]
                      ELSE Append(jobs, e.job)
           /\ last' = [Last0 EXCEPT !.op = "EmptyJob", !.exc = e.exc,
                                    !.path = <<name>>]
    /\ UNCHANGED <<fs, run, pc, tf, walk, submitted>>

(***************************************************************************)
(* Run.to_file: the loop over the registered jobs.                         *)
(***************************************************************************)
ToFileBegin(overwrite) ==
    /\ pc = "idle"
    /\ ops < MaxOps
    /\ ops' = ops + 1
    /\ run.ok
    /\ pc' = "to_file"
    /\ tf' = [idx |-> 1, overwrite |-> overwrite, attempted |-> << >>]
    /\ last' = [Last0 EXCEPT !.op = "Run.to_file begin", !.overwrite = overwrite]
    /\ UNCHANGED <<fs, run, jobs, walk, submitted>>

\* One iteration: job.to_file(self.runsdir, self.qualikizdir, overwrite).
\* An exception leaves the loop and Run.to_file.
ToFileJob(resp) ==
    /\ pc = "to_file"
    /\ ops' = ops
    /\ tf.idx <= Len(jobs)
    /\ LET job  == jobs[tf.idx]
           path == abspath(join(run.runsdir, <<job.name>>))
           o    == JobToFile(fs, job, run.runsdir, run.qualikizdir,
                             tf.overwrite, resp, TRUE)
           seen == Append(tf.attempted, job.name)
       IN  /\ fs' = o.fs
           /\ submitted' = Forget(submitted, o.fs)
           /\ last' = [Last0 EXCEPT !.op = "EmptyJob.to_file",
                                    !.caller = "Run.to_file",
                                    !.exc = o.exc, !.ret = o.ret, !.path = path,
                                    !.existed = exists(fs, path),
                                    !.overwrite = tf.overwrite,
                                    !.prompted = o.prompted,
                                    !.resp = IF o.prompted THEN resp ELSE "-",
                                    !.attempted = seen]
           /\ IF o.exc # ""
              THEN pc' = "idle" /\ tf' = Tf0
              ELSE pc' = pc /\ tf' = [tf EXCEPT !.idx = @ + 1, !.attempted = seen]
    /\ UNCHANGED <<run, jobs, walk>>

ToFileEnd ==
    /\ pc = "to_file"
    /\ ops' = ops
    /\ tf.idx > Len(jobs)
    /\ pc' = "idle"
    /\ tf' = Tf0
    /\ last' = [Last0 EXCEPT !.op = "Run.to_file", !.overwrite = tf.overwrite,
                             !.attempted = tf.attempted]
    /\ UNCHANGED <<fs, run, jobs, walk, submitted>>

(***************************************************************************)
(* The function handed to recursive_function, or called on its own.        *)
(***************************************************************************)
\* The outcomes a function's external commands can have: run_job runs git
\* and sbatch and reads the clock, the other two have one exit code.
Unused == [rc |-> 0, out |-> << >>]

ExitCodes(function) == IF function = "run_job" THEN {0} ELSE {0, 1}

GitChoices(function) == IF function = "run_job" THEN GitOutcomes ELSE {Unused}

SbatchChoices(function) == IF function = "run_job" THEN SbatchOutcomes ELSE {Unused}

Call(function, f, job_folder, rc, git, sbatch, now) ==
    CASE function = "run_job" -> run_job(f, job_folder, git, sbatch, now)
      [] function = "generate_input" ->
             generate_input(f, job_folder, rc) @@ [sbatched |-> FALSE]
      [] OTHER -> echo(f, job_folder, rc) @@ [sbatched |-> FALSE]

Called(function, caller, job_folder, o, git, sbatch) ==
    [Last0 EXCEPT !.op = function, !.caller = caller, !.exc = o.exc,
                  !.ret = o.ret, !.path = job_folder, !.sbatched = o.sbatched,
                  !.args = IF function # "run_job" THEN << >>
                           ELSE IF o.sbatched THEN <<git, sbatch>> ELSE <<git>>]

Recorded(function, f, job_folder, o, git, sbatch, now) ==
    IF function = "run_job" /\ o.exc = ""
    THEN Remember(submitted, Resolve(f, job_folder), git, sbatch, now)
    ELSE submitted

RunJob(job_folder) ==
    /\ pc = "idle"
    /\ ops < MaxOps
    /\ ops' = ops + 1
    /\ \E git \in GitOutcomes, sbatch \in SbatchOutcomes, now \in Times :
          LET o == Call("run_job", fs, job_folder, 0, git, sbatch, now)
          IN  /\ fs' = o.fs
              /\ last' = Called("run_job", "", job_folder, o, git, sbatch)
              /\ submitted' = Recorded("run_job", fs, job_folder, o, git, sbatch, now)
    /\ UNCHANGED <<run, jobs, pc, tf, walk>>

GenerateInput(job_folder) ==
    /\ pc = "idle"
    /\ ops < MaxOps
    /\ ops' = ops + 1
    /\ \E rc \in {0, 1} :
          LET o == Call("generate_input", fs, job_folder, rc, Unused, Unused, << >>)
          IN  /\ fs' = o.fs
              /\ last' = Called("generate_input", "", job_folder, o, Unused, Unused)
    /\ UNCHANGED <<run, jobs, pc, tf, walk, submitted>>

(***************************************************************************)
(* recursive_function(path, function)                                      *)
(***************************************************************************)
WalkBegin(path, function) ==
    /\ pc = "idle"
    /\ ops < MaxOps
    /\ ops' = ops + 1
    /\ IF isdir(fs, path)
       THEN /\ pc' = "walk"
            /\ walk' = [path |-> path, function |-> function,
                        direct |-> scriptname \in listdir(fs, path),
                        todo |-> Candidates(fs, path),
                        calls |-> << >>, results |-> << >>]
            /\ last' = [Last0 EXCEPT !.op = "recursive_function begin",
                                     !.path = path]
       ELSE /\ pc' = pc
            /\ walk' = walk
            /\ last' = [Last0 EXCEPT !.op = "recursive_function",
                                     !.exc = "FileNotFoundError", !.path = path]
    /\ UNCHANGED <<fs, run, jobs, tf, submitted>>

\* One entry of the listing, in whatever order os.listdir gives.
WalkStep ==
    /\ pc = "walk"
    /\ ops' = ops
    /\ \E folder \in walk.todo :
          LET rest == [walk EXCEPT !.todo = @ \ {folder}]
          IN  IF Applies(fs, walk.path, folder)
              THEN \E rc \in ExitCodes(walk.function),
                      git \in GitChoices(walk.function),
                      sbatch \in SbatchChoices(walk.function), now \in Times :
                      LET o == Call(walk.function, fs, folder, rc, git, sbatch, now)
                      IN  /\ fs' = o.fs
                          /\ submitted' = Recorded(walk.function, fs, folder, o,
                                                   git, sbatch, now)
                          /\ IF o.exc = "" \/ Catches(o.exc)
                             THEN /\ walk' = Collect(rest, folder, o)
                                  /\ pc' = pc
                                  /\ last' = Called(walk.function,
                                                    "recursive_function",
                                                    folder, o, git, sbatch)
                             ELSE /\ walk' = Walk0
                                  /\ pc' = "idle"
                                  /\ last' = [Called(walk.function,
                                                     "recursive_function",
                                                     folder, o, git, sbatch)
                                              EXCEPT !.op = "recursive_function",
                                                     !.calls = Collect(rest, folder, o).calls]
              ELSE /\ walk' = rest
                   /\ last' = [Last0 EXCEPT !.op = "skip", !.path = folder]
                   /\ UNCHANGED <<fs, pc, submitted>>
    /\ UNCHANGED <<run, jobs, tf>>

WalkReturn ==
    /\ pc = "walk"
    /\ ops' = ops
    /\ walk.todo = {}
    /\ pc' = "idle"
    /\ walk' = Walk0
    /\ last' = [Last0 EXCEPT !.op = "recursive_function", !.path = walk.path,
                             !.direct = walk.direct, !.calls = walk.calls,
                             !.results = walk.results]
    /\ UNCHANGED <<fs, run, jobs, tf, submitted>>

Next ==
    \/ \E rootdir \in RootDirs, qualikizdir \in QualikizDirs, runsdir \in RunsDirs :
          NewRun(rootdir, qualikizdir, runsdir)
    \/ \E name \in JobNames, script \in Scripts : AddJob(name, script)
    \/ \E overwrite \in BOOLEAN : ToFileBegin(overwrite)
    \/ \E resp \in Responses : ToFileJob(resp)
    \/ ToFileEnd
    \/ \E job_folder \in Folders : RunJob(job_folder)
    \/ \E job_folder \in Folders : GenerateInput(job_folder)
    \/ \E path \in WalkRoots, function \in Functions : WalkBegin(path, function)
    \/ WalkStep
    \/ WalkReturn

Spec == Init /\ [][Next]_vars

(***************************************************************************)
(* Run construction on its own, over a wider set of path arguments.        *)
(* Paths are built from the components r and q, up to two of them,         *)
(* relative or below the root directory.                                   *)
(***************************************************************************)
Components == {"r", "q"}

RelativePaths ==
    {<< >>} \cup {<<c>> : c \in Components}
            \cup {<<c, d>> : c \in Components, d \in Components}

PathArgs == RelativePaths \cup {<<"/">> \o p : p \in RelativePaths}

InitPaths == Init /\ fs = WithTemplate(BaseFs)

\* One construction from the initial state.
NextPaths ==
    /\ ops = 0
    /\ \E rootdir \in PathArgs, qualikizdir \in PathArgs, runsdir \in PathArgs :
          NewRun(rootdir, qualikizdir, runsdir)

SpecPaths == InitPaths /\ [][NextPaths]_vars

(***************************************************************************)
(* Properties.                                                             *)
(***************************************************************************)
Relative(p) == p = << >> \/ p[1] # "/"

Declined(resp) == resp \notin {"", "Y", "y"}

HasScript(f, p) == \E q \in DOMAIN f : q = p \o <<scriptname>>

\* The entries below a directory: relative path, kind and link target.
Layout(f, path) ==
    {<<SubSeq(q, Len(path) + 1, Len(q)), f[q].kind, f[q].target>> :
        q \in {r \in DOMAIN f : IsPrefix(path, r) /\ r # path}}

FoldersOf(calls) == {calls[i].folder : i \in 1..Len(calls)}

ReturnsOf(calls) ==
    LET good == SelectSeq(calls, LAMBDA c : c.exc = "")
    IN  [i \in 1..Len(good) |-> good[i].ret]

\* The immediate subdirectories of a root that hold the script file.
JobChildren(f, root) ==
    {q \in DOMAIN f : /\ Len(q) = Len(root) + 1
                      /\ IsPrefix(root, q)
                      /\ f[q].kind = "dir"
                      /\ HasScript(f, q)}

WalkReturned == last.op = "recursive_function" /\ last.calls # << >>

\* C1: a walk over a root whose job directories make the operation raise
\* for some of them lets no exception out, has applied the operation to
\* every job directory, and returns the results of the calls that did not
\* raise, in the order of the calls.
C1_WalkIsolatesFailures ==
    WalkReturned =>
        /\ last.exc = ""
        /\ FoldersOf(last.calls) =
              (IF HasScript(fs, last.path) THEN {last.path}
               ELSE JobChildren(fs, last.path))
        /\ last.results = ReturnsOf(last.calls)

C1_Witness ==
    /\ WalkReturned
    /\ last.exc = ""
    /\ \E i, j, k \in 1..Len(last.calls) :
          /\ i < j /\ j < k
          /\ last.calls[i].exc = ""
          /\ last.calls[j].exc # ""
          /\ last.calls[k].exc = ""
          /\ last.results = <<last.calls[i].folder, last.calls[k].folder>>

\* C2: when Run.to_file is over, whether it returned or raised, every
\* registered job has been handed to EmptyJob.to_file.
C2_AllJobsAttempted ==
    (pc = "idle" /\ (last.op = "Run.to_file" \/ last.caller = "Run.to_file"))
        => Len(last.attempted) = Len(jobs)

\* A step of EmptyJob.to_file that found its target directory in place.
ToFileOnExisting ==
    /\ last'.op = "EmptyJob.to_file"
    /\ exists(fs, last'.path)
    /\ fs[last'.path].kind = "dir"

\* C3: EmptyJob.to_file on an existing target directory with overwrite
\* false prompts, and on a response other than "", "Y" or "y" it changes
\* nothing in the file system, raises nothing and returns 1.
C3_DeclineLeavesDirectory ==
    [][(ToFileOnExisting /\ ~last'.overwrite) =>
          /\ last'.prompted
          /\ Declined(last'.resp) =>
                (fs' = fs /\ last'.exc = "" /\ last'.ret = One)]_vars

C3_Witness ==
    /\ last.op = "EmptyJob.to_file"
    /\ last.existed /\ ~last.overwrite /\ last.prompted
    /\ last.resp = "n"
    /\ last.ret = One
    /\ exists(fs, last.path \o <<"old.dat">>)

\* The job of the registry that is materialised at a path.
JobAt(path) == jobs[CHOOSE i \in 1..Len(jobs) : jobs[i].name = path[Len(path)]]

\* The entries of a job directory after a complete materialisation.
FullLayout(job) ==
    {<<<<basename(job.binary_path)>>, "link", job.binary_path>>,
     <<<<"qualikiz">>, "link", run.qualikizdir>>,
     <<<<"output">>, "dir", << >> >>,
     <<<<"output", "primitive">>, "dir", << >> >>,
     <<<<"debug">>, "dir", << >> >>,
     <<<<scriptname>>, "file", << >> >>,
     <<<<"parameters.py">>, "file", << >> >>,
     <<<<jobdatafile>>, "file", << >> >>}

\* C4: EmptyJob.to_file on an existing target directory with overwrite true
\* does not prompt and ends as the same call does where the target is
\* absent: same outcome, same entries in the job directory, none of the
\* earlier entries left; a complete materialisation has exactly the eight
\* entries of the job directory layout.
C4_OverwriteEqualsFresh ==
    [][(ToFileOnExisting /\ last'.overwrite) =>
          LET path  == last'.path
              fresh == JobToFile(rmtree(fs, path), JobAt(path), run.runsdir,
                                 run.qualikizdir, TRUE, "-", TRUE)
          IN  /\ ~last'.prompted
              /\ last'.exc = fresh.exc
              /\ Layout(fs', path) = Layout(fresh.fs, path)
              /\ last'.exc = "" => Layout(fs', path) = FullLayout(JobAt(path))]_vars

C4_Witness ==
    /\ last.op = "EmptyJob.to_file"
    /\ last.existed /\ last.overwrite /\ last.exc = ""
    /\ last.path = RunsDir \o <<"a">>
    /\ ~exists(fs, last.path \o <<"old.dat">>)
    /\ exists(fs, last.path \o <<jobdatafile>>)

\* C5: a walk over a root that holds the script file applies the operation
\* once, to the root, and to nothing below it.
C5_RootJobDirectoryOnly ==
    (last.op = "recursive_function" /\ last.exc = "" /\ HasScript(fs, last.path))
        => (Len(last.calls) = 1 /\ last.calls[1].folder = last.path)

C5_Witness ==
    /\ last.op = "recursive_function" /\ last.exc = ""
    /\ HasScript(fs, last.path)
    /\ JobChildren(fs, last.path) # {}
    /\ Len(last.calls) = 1

\* C6: a walk over a root without the script file applies the operation
\* once to each immediate subdirectory that holds the script file and to
\* nothing else.
C6_ImmediateJobChildrenOnly ==
    (last.op = "recursive_function" /\ last.exc = "" /\ ~HasScript(fs, last.path)
         /\ isdir(fs, last.path))
        => /\ FoldersOf(last.calls) = JobChildren(fs, last.path)
           /\ Len(last.calls) = Cardinality(JobChildren(fs, last.path))
           /\ \A i \in 1..Len(last.calls) :
                 LET q == last.calls[i].folder
                 IN  /\ Len(q) = Len(last.path) + 1
                     /\ fs[q].kind = "dir"
                     /\ HasScript(fs, q)

C6_Witness ==
    /\ last.op = "recursive_function" /\ last.exc = ""
    /\ last.path = RunsDir
    /\ ~HasScript(fs, RunsDir \o <<"x">>)
    /\ HasScript(fs, RunsDir \o <<"x", "y">>)
    /\ exists(fs, RunsDir \o <<"f">>)
    /\ Len(last.calls) = 2

\* The metadata file of a folder, as a sequence of at most one node.
MetadataOf(f, folder) ==
    IF exists(f, folder \o <<metadatafile>>)
    THEN <<f[folder \o <<metadatafile>>]>>
    ELSE << >>

Blank(text) == \A i \in 1..Len(text) : text[i] \in Whitespace

\* C7: a run_job whose version query fails never calls the scheduler, and a
\* run_job whose version query, scheduler call or parse of the scheduler
\* output fails neither creates nor changes the folder's metadata file.
C7_MetadataAfterSubmission ==
    [][last'.op = "run_job" =>
          LET git    == last'.args[1]
              folder == last'.path
          IN  /\ git.rc # 0 => (~last'.sbatched /\ last'.exc # "")
              /\ last'.sbatched =>
                    ((last'.args[2].rc # 0 \/ Blank(last'.args[2].out))
                         => last'.exc # "")
              /\ last'.exc # "" => MetadataOf(fs', folder) = MetadataOf(fs, folder)
              /\ MetadataOf(fs', folder) # MetadataOf(fs, folder) =>
                    /\ last'.sbatched
                    /\ last'.args[1].rc = 0
                    /\ last'.args[2].rc = 0
                    /\ ~Blank(last'.args[2].out)]_vars

C7_Witness ==
    /\ last.op = "run_job"
    /\ last.exc = "IndexError"
    /\ last.sbatched
    /\ MetadataOf(fs, last.path) # << >>
    /\ last.path \in DOMAIN submitted

\* tok is the last whitespace-delimited token of text.
IsLastToken(tok, text) ==
    /\ tok # << >>
    /\ \A i \in 1..Len(tok) : tok[i] \notin Whitespace
    /\ \E i \in 1..Len(text) :
          /\ i + Len(tok) - 1 <= Len(text)
          /\ SubSeq(text, i, i + Len(tok) - 1) = tok
          /\ i > 1 => text[i - 1] \in Whitespace
          /\ \A j \in (i + Len(tok))..Len(text) : text[j] \in Whitespace

\* C8: the metadata file of a folder that has been submitted successfully
\* holds three rows, jobnumber, submittime and qualikiz_version in this
\* order, written by the most recent successful submission: the job number
\* is the last token of that submission's scheduler output, 12345 for
\* "Submitted batch job 12345".
C8_MetadataOfLastSubmission ==
    \A folder \in DOMAIN submitted :
        /\ exists(fs, folder \o <<metadatafile>>)
        /\ LET node == fs[folder \o <<metadatafile>>]
               rows == node.content
               sub  == submitted[folder]
           IN  /\ node.kind = "file"
               /\ Len(rows) = 3
               /\ \A i \in 1..3 : Len(rows[i]) = 2
               /\ rows[1][1] = "jobnumber"
               /\ rows[2][1] = "submittime"
               /\ rows[3][1] = "qualikiz_version"
               /\ IsLastToken(rows[1][2], sub.out)
               /\ rows[2][2] = sub.now
               /\ sub.out = Example =>
                     rows[1] = <<"jobnumber", <<"1", "2", "3", "4", "5">> >>
               /\ sub.describe = <<"v", "2", "\n">> => rows[3][2] = <<"v", "2">>

C8_Witness ==
    \E folder \in DOMAIN submitted :
        /\ submitted[folder].nth = 2
        /\ submitted[folder].out = Example
        /\ last.op = "run_job" /\ last.exc # "" /\ last.path = folder
        /\ fs[folder \o <<metadatafile>>].content[1]
              = <<"jobnumber", <<"1", "2", "3", "4", "5">> >>

\* C9: Run(rootdir, qualikizdir, runsdir) raises PathException when rootdir
\* is relative or a given qualikizdir or runsdir is relative; otherwise it
\* keeps rootdir and the given directories as they are, takes
\* rootdir/tools/qualikiz and rootdir/runs for the omitted ones, and all
\* three kept paths are absolute.
C9_RunPaths ==
    last.op = "Run" =>
        LET rootdir     == last.args[1]
            qualikizdir == last.args[2]
            runsdir     == last.args[3]
        IN  /\ (\/ Relative(rootdir)
                \/ (qualikizdir # << >> /\ Relative(qualikizdir))
                \/ (runsdir # << >> /\ Relative(runsdir)))
                   => last.exc = "PathException"
            /\ last.exc = "" =>
                  /\ run.ok
                  /\ run.rootdir = rootdir
                  /\ run.qualikizdir =
                        (IF qualikizdir = << >>
                         THEN rootdir \o <<"tools", "qualikiz">> ELSE qualikizdir)
                  /\ run.runsdir =
                        (IF runsdir = << >> THEN rootdir \o <<"runs">> ELSE runsdir)
                  /\ ~Relative(run.rootdir)
                  /\ ~Relative(run.qualikizdir)
                  /\ ~Relative(run.runsdir)

C9_Witness ==
    /\ last.op = "Run" /\ last.exc = ""
    /\ last.args = << <<"/", "r", "q">>, <<"/", "q">>, << >> >>
    /\ run.qualikizdir = <<"/", "q">>
    /\ run.runsdir = <<"/", "r", "q", "runs">>

\* The directories that hold the script file.
JobDirectories(f) == {p \in DOMAIN f : f[p].kind = "dir" /\ HasScript(f, p)}

\* Some entry of the tree at p is gone after the step.
LosesEntries(p) ==
    \E q \in DOMAIN fs : IsPrefix(p, q) /\ q \notin DOMAIN fs'

=============================================================================
